---- MODULE Spec2Model ----
(***************************************************************************)
(* Model of internal/issuer/signer/signer.go: hvcaSigner.Sign, the         *)
(* issuance pipeline of the Atlas (HVCA) external issuer, together with    *)
(* the package-level variable `err` that Sign writes at its first step.    *)
(*                                                                         *)
(* Every Sign invocation is a process i \in Procs.  Its steps are split    *)
(* where the code touches state another goroutine can see (the package     *)
(* variable err) and where it blocks on the remote CA; the validation of   *)
(* the CSR against the policy (lines 98-152) touches only locals and is    *)
(* one step.                                                               *)
(***************************************************************************)
EXTENDS Integers, Sequences, FiniteSets, TLC

\* ------------------------------------------------------------- bounds
\* concurrent Sign invocations
NumProcs == 2
\* longest DNS-name list of a CSR
MaxDNSNames == 2
\* longest IP-address list of a CSR
MaxIPAddresses == 1
\* largest MinCount / MaxCount of a policy's SAN field
MaxSANCount == 2
\* longest trust chain the CA returns
MaxChainLen == 2

Procs == 1..NumProcs

\* ------------------------------------------------- program constants
\* hvclient.Presence: Optional = 1, Required = 2 (line 150 compares with 2)
Optional == 1
Required == 2
\* hvclient.KeyType
KeyTypeRSA == 1
KeyTypeECDSA == 2
\* x509.PublicKeyAlgorithm
X509RSA == 1
X509DSA == 2
X509ECDSA == 3
\* hvclient.KeyFormat
PKCS8 == 1
PKCS10 == 2

\* 0 is the zero value of Presence: neither optional nor required.
Presences == {0, Optional, Required}

\* hvclient.KeyType.String()
KeyTypeString(t) ==
    CASE t = KeyTypeRSA -> "RSA"
      [] t = KeyTypeECDSA -> "ECDSA"
      [] OTHER -> "UNKNOWN KEY TYPE VALUE"

\* x509.PublicKeyAlgorithm.String()
PublicKeyAlgorithmString(a) ==
    CASE a = X509RSA -> "RSA"
      [] a = X509DSA -> "DSA"
      [] a = X509ECDSA -> "ECDSA"
      [] OTHER -> "0"

\* ------------------------------------------------------------- errors
\* A Go interface value is two words: the type word and the data word.
\* err != nil tests the type word.
NilErr == [tab |-> "nil", data |-> <<>>]
Err(msg) == [tab |-> "error", data |-> msg]
IsNil(e) == e.tab = "nil"

\* the error hvclient.NewClient returns to invocation i
LoginErr(i) == Err(<<"hvclient: login failed", ToString(i)>>)
ParseErr == Err(<<"unable to parse CSR">>)
PolicyErr == Err(<<"hvclient: policy request failed">>)
RequestErr == Err(<<"hvclient: certificate request failed">>)
RetrieveErr == Err(<<"hvclient: certificate retrieve failed">>)
TrustChainErr == Err(<<"hvclient: trust chain request failed">>)

ErrCommonName ==
    Err(<<"atlas validation policy requires subject common name, but CSR did not contain one">>)
ErrSerialNumber ==
    Err(<<"atlas validation policy requires subject serial number, but CSR did not contain one">>)
ErrSANCount ==
    Err(<<"atlas validation policy requires additional SANs not present in the provided CSR">>)
ErrKeyType(c, p) ==
    Err(<<"csr public key type doesn't match Atlas account pubic key type: CSR - ",
          PublicKeyAlgorithmString(c.PublicKeyAlgorithm),
          "Atlas - ",
          KeyTypeString(p.PublicKey.KeyType)>>)
ErrKeyFormat ==
    Err(<<"atlas account does not support pkcs10 key format, update atlas account">>)

\* ------------------------------------------------------------- inputs
Prefix(s, n) == [k \in 1..n |-> s[k]]

CommonNames == {"", "example.com"}
SerialNumbers == {"", "SN-0001"}
DNSNamePool == <<"www.example.com", "example.com", "api.example.com", "mail.example.com">>
IPAddressPool == <<"192.0.2.1", "192.0.2.2", "192.0.2.3">>
HashLists == {<<>>, <<"SHA-256">>, <<"SHA-512", "SHA-256">>}

DNSLists == {Prefix(DNSNamePool, n) : n \in 0..MaxDNSNames}
IPLists == {Prefix(IPAddressPool, n) : n \in 0..MaxIPAddresses}

\* what parseCSR makes of the bytes: valid = FALSE is a malformed CSR
MakeCSR(cn, sn, dns, ips, alg) ==
    [valid |-> TRUE,
     Subject |-> [CommonName |-> cn, SerialNumber |-> sn],
     DNSNames |-> dns, IPAddresses |-> ips, PublicKeyAlgorithm |-> alg,
     SignatureAlgorithm |-> "SHA256-RSA"]
MalformedCSR ==
    [valid |-> FALSE,
     Subject |-> [CommonName |-> "", SerialNumber |-> ""],
     DNSNames |-> <<>>, IPAddresses |-> <<>>, PublicKeyAlgorithm |-> 0,
     SignatureAlgorithm |-> ""]

\* the algorithm the CSR itself is signed with
SignatureAlgorithms == {"SHA256-RSA", "SHA512-RSA"}
WithSignatureAlgorithm(c, a) == [c EXCEPT !.SignatureAlgorithm = a]

SubjectPolicies ==
    [CommonName : [Presence : Presences], SerialNumber : [Presence : Presences]]
SANFieldPolicies ==
    [Static : BOOLEAN, MinCount : 0..MaxSANCount, MaxCount : 0..MaxSANCount]
KeyPolicies == [KeyType : {KeyTypeRSA, KeyTypeECDSA}, KeyFormat : {PKCS8, PKCS10}]
HashPolicies == [Presence : Presences, List : HashLists]

MakePolicy(subj, dns, ips, key, hash) ==
    [SubjectDN |-> subj,
     SAN |-> [DNSNames |-> dns, IPAddresses |-> ips],
     PublicKey |-> key,
     SignaturePolicy |-> [HashAlgorithm |-> hash]]

NoPolicy ==
    MakePolicy([CommonName |-> [Presence |-> 0], SerialNumber |-> [Presence |-> 0]],
               [Static |-> FALSE, MinCount |-> 0, MaxCount |-> 0],
               [Static |-> FALSE, MinCount |-> 0, MaxCount |-> 0],
               [KeyType |-> 0, KeyFormat |-> 0],
               [Presence |-> 0, List |-> <<>>])

\* ------------------------------------------------ validate and project
EmptyRequest(c) ==
    [CSR |-> c,
     Subject |-> [CommonName |-> "", SerialNumber |-> ""],
     SAN |-> [DNSNames |-> <<>>, IPAddresses |-> <<>>],
     Signature |-> [HashAlgorithm |-> ""]]

\* the presence test of line 100 written against the wrong constant
CommonNameMissingWrongPresence(c, p) ==
    /\ p.SubjectDN.CommonName.Presence = Optional
    /\ c.Subject.CommonName = ""

CommonNameMissing(c, p) ==
    /\ p.SubjectDN.CommonName.Presence = Required
    /\ c.Subject.CommonName = ""

\* lines 106-108 left out: only a required common name is copied
ProjectCommonNameRequiredOnly(c, p) ==
    IF p.SubjectDN.CommonName.Presence = Required
    THEN c.Subject.CommonName
    ELSE ""

ProjectCommonName(c, p) ==
    IF p.SubjectDN.CommonName.Presence = Required
       \/ p.SubjectDN.CommonName.Presence = Optional
    THEN c.Subject.CommonName
    ELSE ""

\* line 112 pasted from line 101: the common name is tested again
SerialNumberMissingPasted(c, p) ==
    /\ p.SubjectDN.SerialNumber.Presence = Required
    /\ c.Subject.CommonName = ""

SerialNumberMissing(c, p) ==
    /\ p.SubjectDN.SerialNumber.Presence = Required
    /\ c.Subject.SerialNumber = ""

ProjectSerialNumber(c, p) ==
    IF p.SubjectDN.SerialNumber.Presence = Required
       \/ p.SubjectDN.SerialNumber.Presence = Optional
    THEN c.Subject.SerialNumber
    ELSE ""

\* line 128 with the common name put in front of the copied names
PopulateDNSNamesPrepend(r, c, p) ==
    IF p.SAN.DNSNames.Static = FALSE /\ p.SAN.DNSNames.MaxCount > 0
    THEN LET copied == IF Len(c.DNSNames) < p.SAN.DNSNames.MaxCount
                       THEN c.DNSNames
                       ELSE <<>>
         IN  IF r.Subject.CommonName # ""
                /\ Len(r.CSR.DNSNames) < p.SAN.DNSNames.MaxCount
             THEN <<r.Subject.CommonName>> \o copied
             ELSE copied
    ELSE <<>>

\* line 123 without its test of the maximum count
PopulateDNSNamesCopyAll(r, c, p) ==
    IF p.SAN.DNSNames.Static = FALSE /\ p.SAN.DNSNames.MaxCount > 0
    THEN IF r.Subject.CommonName # ""
            /\ Len(r.CSR.DNSNames) < p.SAN.DNSNames.MaxCount
         THEN Append(c.DNSNames, r.Subject.CommonName)
         ELSE c.DNSNames
    ELSE <<>>

PopulateDNSNames(r, c, p) ==
    IF p.SAN.DNSNames.Static = FALSE /\ p.SAN.DNSNames.MaxCount > 0
    THEN LET copied == IF Len(c.DNSNames) < p.SAN.DNSNames.MaxCount
                       THEN c.DNSNames
                       ELSE <<>>
         IN  IF r.Subject.CommonName # ""
                /\ Len(r.CSR.DNSNames) < p.SAN.DNSNames.MaxCount
             THEN Append(copied, r.Subject.CommonName)
             ELSE copied
    ELSE <<>>

\* line 133 without its test of Static
PopulateIPAddressesIgnoreStatic(r, c, p) ==
    IF p.SAN.IPAddresses.MaxCount > 0
       /\ Len(c.IPAddresses) < p.SAN.IPAddresses.MaxCount
    THEN c.IPAddresses
    ELSE <<>>

PopulateIPAddresses(r, c, p) ==
    IF p.SAN.IPAddresses.Static = FALSE /\ p.SAN.IPAddresses.MaxCount > 0
       /\ Len(c.IPAddresses) < p.SAN.IPAddresses.MaxCount
    THEN c.IPAddresses
    ELSE <<>>

\* line 138 counting the CSR's SANs instead of the request's
SANCountTooLowRaw(r, p) ==
    \/ p.SAN.DNSNames.MinCount > Len(r.CSR.DNSNames)
    \/ p.SAN.IPAddresses.MinCount > Len(r.CSR.IPAddresses)

SANCountTooLow(r, p) ==
    \/ p.SAN.DNSNames.MinCount > Len(r.SAN.DNSNames)
    \/ p.SAN.IPAddresses.MinCount > Len(r.SAN.IPAddresses)

\* line 142 comparing the two enumerations' values instead of their names
KeyTypeMismatchByValue(c, p) == p.PublicKey.KeyType # c.PublicKeyAlgorithm

KeyTypeMismatch(c, p) ==
    KeyTypeString(p.PublicKey.KeyType) # PublicKeyAlgorithmString(c.PublicKeyAlgorithm)

\* lines 146-148 left out: every key format is let through
KeyFormatUnsupportedNever(p) == FALSE

KeyFormatUnsupported(p) == p.PublicKey.KeyFormat # PKCS10

\* line 150 taking an optional hash algorithm for a required one
HashRequiredOrOptional(p) ==
    \/ p.SignaturePolicy.HashAlgorithm.Presence = 2
    \/ p.SignaturePolicy.HashAlgorithm.Presence = 1

HashRequired(p) == p.SignaturePolicy.HashAlgorithm.Presence = 2

\* Lines 98-152 on locals csr = c, vp = p: the request as far as it was
\* built, and how the block ends: "ok" (go on to submit), "error" (return
\* nil, nil, err) or "panic" (List[0] of an empty list: index out of range).
Validate(c, p) ==
    LET r0 == EmptyRequest(c)
        r1 == [r0 EXCEPT !.Subject.CommonName = ProjectCommonName(c, p)]
        r2 == [r1 EXCEPT !.Subject.SerialNumber = ProjectSerialNumber(c, p)]
        r3 == [r2 EXCEPT !.SAN.DNSNames = PopulateDNSNames(r2, c, p)]
        r4 == [r3 EXCEPT !.SAN.IPAddresses = PopulateIPAddresses(r3, c, p)]
        r5 == [r4 EXCEPT !.Signature.HashAlgorithm =
                             p.SignaturePolicy.HashAlgorithm.List[1]]
    IN  IF CommonNameMissing(c, p)
        THEN [req |-> r0, outcome |-> "error", err |-> ErrCommonName]
        ELSE IF SerialNumberMissing(c, p)
        THEN [req |-> r1, outcome |-> "error", err |-> ErrSerialNumber]
        ELSE IF SANCountTooLow(r4, p)
        THEN [req |-> r4, outcome |-> "error", err |-> ErrSANCount]
        ELSE IF KeyTypeMismatch(c, p)
        THEN [req |-> r4, outcome |-> "error", err |-> ErrKeyType(c, p)]
        ELSE IF KeyFormatUnsupported(p)
        THEN [req |-> r4, outcome |-> "error", err |-> ErrKeyFormat]
        ELSE IF HashRequired(p)
        THEN IF p.SignaturePolicy.HashAlgorithm.List = <<>>
             THEN [req |-> r4, outcome |-> "panic", err |-> NilErr]
             ELSE [req |-> r5, outcome |-> "ok", err |-> NilErr]
        ELSE [req |-> r4, outcome |-> "ok", err |-> NilErr]

\* ------------------------------------------------------ PEM encoding
\* A certificate's raw DER is a sequence of bytes; pem.EncodeToMemory gives
\* the BEGIN line, the payload and the END line.
LeafDER(s) == <<48, s>>
CACertDER(k) == <<48, 128, k>>
NoCert == [Raw |-> <<>>]
CAChains == {[k \in 1..n |-> [Raw |-> CACertDER(k)]] : n \in 0..MaxChainLen}

PemEncode(type, bytes) ==
    <<[line |-> "BEGIN", type |-> type, byte |-> 0]>>
    \o [k \in 1..Len(bytes) |-> [line |-> "DATA", type |-> type, byte |-> bytes[k]]]
    \o <<[line |-> "END", type |-> type, byte |-> 0]>>

\* line 173 putting each block in front of the blocks written so far
RECURSIVE EncodeChainReversed(_)
EncodeChainReversed(list) ==
    IF list = <<>>
    THEN <<>>
    ELSE EncodeChainReversed(Tail(list)) \o PemEncode("CERTIFICATE", Head(list).Raw)

RECURSIVE EncodeChain(_)
EncodeChain(list) ==
    IF list = <<>>
    THEN <<>>
    ELSE PemEncode("CERTIFICATE", Head(list).Raw) \o EncodeChain(Tail(list))

\* pem.Decode: the first well-formed block of the text and what follows it;
\* a text without such a block gives the nil block
NilBlock == [nil |-> TRUE, Type |-> "", Bytes |-> <<>>]

BlockEnds(text, b) ==
    {e \in (b + 1)..Len(text) :
        /\ text[e].line = "END"
        /\ text[e].type = text[b].type
        /\ \A k \in (b + 1)..(e - 1) : text[k].line = "DATA"}

BlockBegins(text) ==
    {b \in 1..Len(text) : text[b].line = "BEGIN" /\ BlockEnds(text, b) # {}}

PemDecode(text) ==
    IF BlockBegins(text) = {}
    THEN [block |-> NilBlock, rest |-> text]
    ELSE LET b == CHOOSE x \in BlockBegins(text) : \A y \in BlockBegins(text) : x <= y
             e == CHOOSE x \in BlockEnds(text, b) : \A y \in BlockEnds(text, b) : x <= y
         IN  [block |-> [nil |-> FALSE,
                         Type |-> text[b].type,
                         Bytes |-> [k \in 1..(e - b - 1) |-> text[b + k].byte]],
              rest |-> SubSeq(text, e + 1, Len(text))]

\* every block of a text, in order
RECURSIVE DecodeAll(_)
DecodeAll(text) ==
    IF PemDecode(text).block.nil
    THEN <<>>
    ELSE <<PemDecode(text).block>> \o DecodeAll(PemDecode(text).rest)

\* ------------------------------------------------ bootstrapper inputs
\* DER of the mTLS credentials: a certificate opens with two SEQUENCE tags,
\* a PKCS#1 key with SEQUENCE, INTEGER (version), INTEGER (modulus), a
\* PKCS#8 key with SEQUENCE, INTEGER (version), SEQUENCE (algorithm)
ClientCertDER == <<48, 48, 1>>
PKCS1KeyDER == <<48, 2, 2>>
PKCS8KeyDER == <<48, 2, 48>>
ECKeyDER == <<48, 2, 4>>
JunkDER == <<255>>

NoKey == [Format |-> "", Raw |-> <<>>]

CertParseErr == Err("x509: malformed certificate")
PKCS1ParseErr == Err("x509: failed to parse private key (PKCS1)")
PKCS8ParseErr == Err("x509: failed to parse private key (PKCS8)")
ErrKeyPEMType == Err("unable to determine the mTLS private key type")
ConfigErr == Err("hvclient: invalid configuration")

\* x509.ParseCertificate, x509.ParsePKCS1PrivateKey, x509.ParsePKCS8PrivateKey
ParseCertificate(der) ==
    IF Len(der) >= 2 /\ der[1] = 48 /\ der[2] = 48
    THEN [val |-> [Raw |-> der], err |-> NilErr]
    ELSE [val |-> NoCert, err |-> CertParseErr]

ParsePKCS1PrivateKey(der) ==
    IF Len(der) >= 3 /\ der[1] = 48 /\ der[2] = 2 /\ der[3] = 2
    THEN [val |-> [Format |-> "PKCS1", Raw |-> der], err |-> NilErr]
    ELSE [val |-> NoKey, err |-> PKCS1ParseErr]

ParsePKCS8PrivateKey(der) ==
    IF Len(der) >= 3 /\ der[1] = 48 /\ der[2] = 2 /\ der[3] = 48
    THEN [val |-> [Format |-> "PKCS8", Raw |-> der], err |-> NilErr]
    ELSE [val |-> NoKey, err |-> PKCS8ParseErr]

\* hvclient.Config.Validate: the endpoint and the API credentials are there
HVConfigValidate(c) ==
    IF c.URL = "" \/ c.APIKey = "" \/ c.APISecret = ""
    THEN ConfigErr
    ELSE NilErr

\* a secret entry that holds no PEM block
NoPEM == <<[line |-> "DATA", type |-> "", byte |-> 255]>>

CertEntries ==
    {<<>>, NoPEM,
     PemEncode("CERTIFICATE", ClientCertDER),
     PemEncode("CERTIFICATE", JunkDER)}
KeyEntries ==
    {<<>>, NoPEM, PemEncode("EC PRIVATE KEY", ECKeyDER)}
    \cup {PemEncode(t, der) : t \in {"RSA PRIVATE KEY", "PRIVATE KEY"},
                              der \in {PKCS1KeyDER, PKCS8KeyDER}}
Secrets ==
    [cert : CertEntries, certkey : KeyEntries,
     apikey : {"", "key"}, apisecret : {"secret"}]
IssuerURL == "https://emea.api.hvca.globalsign.com:8443/v2"

NoConfig ==
    [APIKey |-> "", APISecret |-> "", URL |-> "", TLSCert |-> NoCert, TLSKey |-> NoKey]
NoSigner == [nil |-> TRUE, config |-> NoConfig]

\* -------------------------------------------------------------- state
VARIABLES
    pc,           \* pc[i]: where invocation i stands
    csrBytes,     \* csrBytes[i]: the argument of invocation i
    nextSerial,   \* the CA's next serial number
    globalErr,    \* the package-level variable err (line 15)
    scope,        \* scope[i]: the context of invocation i (lines 71, 76)
    clnt,         \* locals of invocation i
    csr,
    vp,
    req,
    serial,
    info,
    caChainList,
    result,       \* result[i]: what invocation i returned
    openErr,      \* history: the error NewClient returned to invocation i
    failedAt,     \* history: the steps of invocation i that failed
    calls,        \* history: the remote calls invocation i made, in order
    bootPc,       \* where the call of HVCASignerFromIssuerAndSecretData stands
    bootSite,     \* which of its assignments to err it is at (line 41, 46/50, 56)
    secret,       \* its argument
    certDER,      \* its locals
    keyDER,
    hvconfig,
    callErr,      \* the error value its last callee returned, not yet stored
    bootResult    \* what it returned

bootVars == <<bootPc, bootSite, secret, certDER, keyDER, hvconfig, callErr,
              bootResult>>

signVars == <<pc, csrBytes, nextSerial, scope, clnt, csr, vp, req, serial,
              info, caChainList, result, openErr, failedAt, calls>>

vars == <<pc, csrBytes, nextSerial, globalErr, scope, clnt, csr, vp,
          req, serial, info, caChainList, result, openErr, failedAt, calls,
          bootPc, bootSite, secret, certDER, keyDER, hvconfig, callErr,
          bootResult>>

NoResult == [leaf |-> <<>>, chain |-> <<>>, err |-> NilErr]

InitLocals ==
    /\ nextSerial = 1
    /\ globalErr = NilErr
    /\ scope = [i \in Procs |-> "none"]
    /\ clnt = [i \in Procs |-> "nil"]
    /\ csr = [i \in Procs |-> MalformedCSR]
    /\ vp = [i \in Procs |-> NoPolicy]
    /\ req = [i \in Procs |-> EmptyRequest(MalformedCSR)]
    /\ serial = [i \in Procs |-> 0]
    /\ info = [i \in Procs |-> NoCert]
    /\ caChainList = [i \in Procs |-> <<>>]
    /\ result = [i \in Procs |-> NoResult]
    /\ openErr = [i \in Procs |-> NilErr]
    /\ failedAt = [i \in Procs |-> {}]
    /\ calls = [i \in Procs |-> <<>>]

NoBootResult == [signer |-> NoSigner, err |-> NilErr]

InitBootLocals ==
    /\ bootSite = "none"
    /\ certDER = NilBlock
    /\ keyDER = NilBlock
    /\ hvconfig = NoConfig
    /\ callErr = NilErr
    /\ bootResult = NoBootResult

\* the secret of a signer that was built before the run
ValidSecret ==
    [cert |-> PemEncode("CERTIFICATE", ClientCertDER),
     certkey |-> PemEncode("PRIVATE KEY", PKCS8KeyDER),
     apikey |-> "key", apisecret |-> "secret"]

\* no call of HVCASignerFromIssuerAndSecretData is under way
NoBoot ==
    /\ bootPc = "idle"
    /\ secret = ValidSecret
    /\ InitBootLocals


\* the inputs of the exhaustive single-invocation runs: one section of the
\* policy (and the CSR fields it governs) ranges over all its values, the
\* other sections over a failing and a passing probe
SubjectCases ==
    {[pol |-> s, cn |-> cn, sn |-> sn] :
        s \in SubjectPolicies, cn \in CommonNames, sn \in SerialNumbers}
DNSCases == {[pol |-> d, names |-> l] : d \in SANFieldPolicies, l \in DNSLists}
IPCases == {[pol |-> d, addrs |-> l] : d \in SANFieldPolicies, l \in IPLists}
KeyCases ==
    {[pol |-> k, alg |-> a] : k \in KeyPolicies, a \in {X509RSA, X509DSA, X509ECDSA}}
HashCases == HashPolicies

ProbeSubject ==
    {[pol |-> [CommonName |-> [Presence |-> Required],
               SerialNumber |-> [Presence |-> Required]],
      cn |-> "", sn |-> ""],
     [pol |-> [CommonName |-> [Presence |-> Required],
               SerialNumber |-> [Presence |-> Optional]],
      cn |-> "example.com", sn |-> "SN-0001"],
     [pol |-> [CommonName |-> [Presence |-> 0],
               SerialNumber |-> [Presence |-> 0]],
      cn |-> "example.com", sn |-> ""]}
ProbeDNS ==
    {[pol |-> [Static |-> FALSE, MinCount |-> 0, MaxCount |-> MaxSANCount], names |-> <<>>],
     [pol |-> [Static |-> FALSE, MinCount |-> 1, MaxCount |-> 1], names |-> <<>>]}
ProbeIP ==
    {[pol |-> [Static |-> TRUE, MinCount |-> 0, MaxCount |-> 0], addrs |-> <<>>],
     [pol |-> [Static |-> FALSE, MinCount |-> 1, MaxCount |-> 1], addrs |-> <<>>]}
ProbeKey ==
    {[pol |-> [KeyType |-> KeyTypeRSA, KeyFormat |-> PKCS10], alg |-> X509RSA],
     [pol |-> [KeyType |-> KeyTypeECDSA, KeyFormat |-> PKCS10], alg |-> X509DSA]}
ProbeHash ==
    {[Presence |-> Required, List |-> <<"SHA-256">>],
     [Presence |-> Required, List |-> <<>>]}

MakeCase(s, d, a, k, h) ==
    [csr |-> MakeCSR(s.cn, s.sn, d.names, a.addrs, k.alg),
     policy |-> MakePolicy(s.pol, d.pol, a.pol, k.pol, h)]

SingleCases ==
    {MakeCase(s, d, a, k, h) :
        s \in SubjectCases, d \in DNSCases, a \in ProbeIP, k \in ProbeKey, h \in ProbeHash}
    \cup {MakeCase(s, d, a, k, h) :
        s \in ProbeSubject, d \in ProbeDNS, a \in IPCases, k \in ProbeKey, h \in ProbeHash}
    \cup {MakeCase(s, d, a, k, h) :
        s \in ProbeSubject, d \in ProbeDNS, a \in ProbeIP, k \in KeyCases, h \in ProbeHash}
    \cup {MakeCase(s, d, a, k, h) :
        s \in ProbeSubject, d \in ProbeDNS, a \in ProbeIP, k \in ProbeKey, h \in HashCases}
    \cup {[csr |-> WithSignatureAlgorithm(MakeCase(s, d, a, k, h).csr, "SHA512-RSA"),
           policy |-> MakeCase(s, d, a, k, h).policy] :
        s \in ProbeSubject, d \in ProbeDNS, a \in ProbeIP, k \in ProbeKey, h \in HashCases}
    \cup {[csr |-> MalformedCSR, policy |-> NoPolicy]}

\* the inputs of the concurrent runs: the end-to-end scenario's policy, the
\* CA's full trust chain, and a malformed CSR, a CSR without common name and
\* the scenario's CSR
ScenarioPolicy(list) ==
    MakePolicy([CommonName |-> [Presence |-> Required],
                SerialNumber |-> [Presence |-> 0]],
               [Static |-> FALSE, MinCount |-> 0, MaxCount |-> 0],
               [Static |-> FALSE, MinCount |-> 0, MaxCount |-> 0],
               [KeyType |-> KeyTypeRSA, KeyFormat |-> PKCS10],
               [Presence |-> Required, List |-> list])
ConcurrentPolicies == {ScenarioPolicy(<<"SHA-256">>)}
ConcurrentChains == {[k \in 1..MaxChainLen |-> [Raw |-> CACertDER(k)]]}
ConcurrentCSRs ==
    {MalformedCSR,
     MakeCSR("", "", <<>>, <<>>, X509RSA),
     MakeCSR("example.com", "", <<>>, <<>>, X509RSA)}

\* ----------------------------------------------------------- initial
\* NumProcs goroutines have each called Sign on the same signer.
Init ==
    /\ pc = [i \in Procs |-> "start"]
    /\ csrBytes \in [Procs -> ConcurrentCSRs]
    /\ InitLocals
    /\ NoBoot

\* One goroutine has called Sign; the others never do.
InitSingle ==
    /\ pc = [i \in Procs |-> IF i = 1 THEN "start" ELSE "idle"]
    /\ \E k \in SingleCases :
          csrBytes = [i \in Procs |-> IF i = 1 THEN k.csr ELSE MalformedCSR]
    /\ InitLocals
    /\ NoBoot

\* the policies the CA answers the fetch of a CSR c with, in the single runs
SinglePolicies(c) == {k.policy : k \in {x \in SingleCases : x.csr = c}}

\* ------------------------------------------------------------ actions
\* line 76 left out: a return that does not cancel the context
ReturnWithoutCancel(i, leaf, chain, e) ==
    /\ result' = [result EXCEPT ![i] = [leaf |-> leaf, chain |-> chain, err |-> e]]
    /\ pc' = [pc EXCEPT ![i] = "done"]
    /\ UNCHANGED scope

\* return leaf, chain, e; the deferred cancel() (line 76) runs
Return(i, leaf, chain, e) ==
    /\ result' = [result EXCEPT ![i] = [leaf |-> leaf, chain |-> chain, err |-> e]]
    /\ pc' = [pc EXCEPT ![i] = "done"]
    /\ scope' = [scope EXCEPT ![i] = "released"]

\* a run-time panic unwinds Sign: the deferred cancel() runs, nothing is returned
Panic(i) ==
    /\ pc' = [pc EXCEPT ![i] = "panic"]
    /\ scope' = [scope EXCEPT ![i] = "released"]
    /\ UNCHANGED result

Fail(i, step) == failedAt' = [failedAt EXCEPT ![i] = @ \cup {step}]

Log(i, call) == calls' = [calls EXCEPT ![i] = Append(@, call)]

\* lines 71-77: open the context and call hvclient.NewClient
NewClient(i) ==
    /\ pc[i] = "start"
    /\ scope' = [scope EXCEPT ![i] = "open"]
    /\ \E ok \in BOOLEAN :
          /\ clnt' = [clnt EXCEPT ![i] = IF ok THEN "client" ELSE "nil"]
          /\ openErr' = [openErr EXCEPT ![i] = IF ok THEN NilErr ELSE LoginErr(i)]
          /\ failedAt' = [failedAt EXCEPT ![i] = IF ok THEN @ ELSE @ \cup {"open"}]
    /\ pc' = [pc EXCEPT ![i] = "store"]
    /\ UNCHANGED <<csrBytes, nextSerial, globalErr, csr, vp, req,
                   serial, info, caChainList, result, calls>>
    /\ UNCHANGED bootVars

\* line 77, "clnt, err = ...": the store to the package variable err, an
\* unsynchronised two-word store; the words land one at a time, in either order
StoreErr(i) ==
    /\ pc[i] \in {"store", "storeTab", "storeData"}
    /\ \E w \in {"tab", "data"} :
          /\ pc[i] \in {"store", IF w = "tab" THEN "storeTab" ELSE "storeData"}
          /\ globalErr' = IF w = "tab"
                          THEN [globalErr EXCEPT !.tab = openErr[i].tab]
                          ELSE [globalErr EXCEPT !.data = openErr[i].data]
          /\ pc' = [pc EXCEPT ![i] =
                       IF pc[i] # "store" THEN "check"
                       ELSE IF w = "tab" THEN "storeData" ELSE "storeTab"]
    /\ UNCHANGED <<csrBytes, nextSerial, scope, clnt, csr, vp, req,
                   serial, info, caChainList, result, openErr, failedAt, calls>>
    /\ UNCHANGED bootVars

\* line 77, "err != nil": load the package variable and test its type word
CheckErr(i) ==
    /\ pc[i] = "check"
    /\ pc' = [pc EXCEPT ![i] = IF IsNil(globalErr) THEN "parse" ELSE "returnErr"]
    /\ UNCHANGED <<csrBytes, nextSerial, globalErr, scope, clnt, csr,
                   vp, req, serial, info, caChainList, result, openErr,
                   failedAt, calls>>
    /\ UNCHANGED bootVars

\* line 78, "return nil, nil, err": load the package variable again
ReturnErr(i) ==
    /\ pc[i] = "returnErr"
    /\ Return(i, <<>>, <<>>, globalErr)
    /\ UNCHANGED <<csrBytes, nextSerial, globalErr, clnt, csr, vp,
                   req, serial, info, caChainList, openErr, failedAt, calls>>
    /\ UNCHANGED bootVars

\* lines 81-92: parse the CSR and set up the request
ParseCSR(i) ==
    /\ pc[i] = "parse"
    /\ IF csrBytes[i].valid
       THEN /\ csr' = [csr EXCEPT ![i] = csrBytes[i]]
            /\ req' = [req EXCEPT ![i] = EmptyRequest(csrBytes[i])]
            /\ pc' = [pc EXCEPT ![i] = "policy"]
            /\ UNCHANGED <<result, scope, failedAt>>
       ELSE /\ Return(i, <<>>, <<>>, ParseErr)
            /\ Fail(i, "parse")
            /\ UNCHANGED <<csr, req>>
    /\ UNCHANGED <<csrBytes, nextSerial, globalErr, clnt, vp, serial,
                   info, caChainList, openErr, calls>>
    /\ UNCHANGED bootVars

\* lines 94-97: clnt.Policy(ctx), answered with one of `policies`; a nil
\* client is dereferenced before any request is sent
Policy(i, policies) ==
    /\ pc[i] = "policy"
    /\ IF clnt[i] = "nil"
       THEN /\ Panic(i)
            /\ UNCHANGED <<vp, failedAt, calls>>
       ELSE /\ Log(i, "Policy")
            /\ \/ /\ \E p \in policies : vp' = [vp EXCEPT ![i] = p]
                  /\ pc' = [pc EXCEPT ![i] = "validate"]
                  /\ UNCHANGED <<result, scope, failedAt>>
               \/ /\ Return(i, <<>>, <<>>, PolicyErr)
                  /\ Fail(i, "policy")
                  /\ UNCHANGED vp
    /\ UNCHANGED <<csrBytes, nextSerial, globalErr, clnt, csr, req,
                   serial, info, caChainList, openErr>>
    /\ UNCHANGED bootVars

\* lines 98-152: validate the CSR against the policy and fill the request
ValidateAndProject(i) ==
    /\ pc[i] = "validate"
    /\ LET v == Validate(csr[i], vp[i])
       IN  /\ req' = [req EXCEPT ![i] = v.req]
           /\ CASE v.outcome = "ok" ->
                     /\ pc' = [pc EXCEPT ![i] = "request"]
                     /\ UNCHANGED <<result, scope, failedAt>>
                [] v.outcome = "error" ->
                     /\ Return(i, <<>>, <<>>, v.err)
                     /\ Fail(i, "validate")
                [] OTHER ->
                     /\ Panic(i)
                     /\ UNCHANGED failedAt
    /\ UNCHANGED <<csrBytes, nextSerial, globalErr, clnt, csr, vp,
                   serial, info, caChainList, openErr, calls>>
    /\ UNCHANGED bootVars

\* lines 154-156: clnt.CertificateRequest(ctx, &req)
CertificateRequest(i) ==
    /\ pc[i] = "request"
    /\ Log(i, "CertificateRequest")
    /\ \E ok \in BOOLEAN :
          IF ok
          THEN /\ serial' = [serial EXCEPT ![i] = nextSerial]
               /\ nextSerial' = nextSerial + 1
               /\ pc' = [pc EXCEPT ![i] = "retrieve"]
               /\ UNCHANGED <<result, scope, failedAt>>
          ELSE /\ Return(i, <<>>, <<>>, RequestErr)
               /\ Fail(i, "submit")
               /\ UNCHANGED <<serial, nextSerial>>
    /\ UNCHANGED <<csrBytes, globalErr, clnt, csr, vp, req, info,
                   caChainList, openErr>>
    /\ UNCHANGED bootVars

\* lines 158-160: clnt.CertificateRetrieve(ctx, serial)
CertificateRetrieve(i) ==
    /\ pc[i] = "retrieve"
    /\ Log(i, "CertificateRetrieve")
    /\ \E ok \in BOOLEAN :
          IF ok
          THEN /\ info' = [info EXCEPT ![i] = [Raw |-> LeafDER(serial[i])]]
               /\ pc' = [pc EXCEPT ![i] = "chain"]
               /\ UNCHANGED <<result, scope, failedAt>>
          ELSE /\ Return(i, <<>>, <<>>, RetrieveErr)
               /\ Fail(i, "retrieve")
               /\ UNCHANGED info
    /\ UNCHANGED <<csrBytes, nextSerial, globalErr, clnt, csr, vp,
                   req, serial, caChainList, openErr>>
    /\ UNCHANGED bootVars

\* lines 162-164: clnt.TrustChain(ctx), answered with one of `chains`
TrustChain(i, chains) ==
    /\ pc[i] = "chain"
    /\ Log(i, "TrustChain")
    /\ \/ /\ \E list \in chains : caChainList' = [caChainList EXCEPT ![i] = list]
          /\ pc' = [pc EXCEPT ![i] = "encode"]
          /\ UNCHANGED <<result, scope, failedAt>>
       \/ /\ Return(i, <<>>, <<>>, TrustChainErr)
          /\ Fail(i, "chain")
          /\ UNCHANGED caChainList
    /\ UNCHANGED <<csrBytes, nextSerial, globalErr, clnt, csr, vp,
                   req, serial, info, openErr>>
    /\ UNCHANGED bootVars

\* lines 166-182 with the two outputs returned in each other's place
EncodeSwapped(i) ==
    /\ pc[i] = "encode"
    /\ Return(i, EncodeChain(caChainList[i]), PemEncode("CERTIFICATE", info[i].Raw), NilErr)
    /\ UNCHANGED <<csrBytes, nextSerial, globalErr, clnt, csr, vp,
                   req, serial, info, caChainList, openErr, failedAt, calls>>
    /\ UNCHANGED bootVars

\* lines 166-182: encode the chain and the leaf, return them
Encode(i) ==
    /\ pc[i] = "encode"
    /\ Return(i, PemEncode("CERTIFICATE", info[i].Raw), EncodeChain(caChainList[i]), NilErr)
    /\ UNCHANGED <<csrBytes, nextSerial, globalErr, clnt, csr, vp,
                   req, serial, info, caChainList, openErr, failedAt, calls>>
    /\ UNCHANGED bootVars

\* ----------------------------------- HVCASignerFromIssuerAndSecretData
\* return s, e
BootReturn(s, e) ==
    /\ bootResult' = [signer |-> s, err |-> e]
    /\ bootPc' = "done"

\* a run-time panic unwinds the call: nothing is returned
BootPanic ==
    /\ bootPc' = "panic"
    /\ UNCHANGED bootResult

\* lines 34-40: fill in the credentials, decode the two PEM entries
Decode ==
    /\ bootPc = "start"
    /\ hvconfig' = [hvconfig EXCEPT !.APIKey = secret.apikey,
                                    !.APISecret = secret.apisecret,
                                    !.URL = IssuerURL]
    /\ certDER' = PemDecode(secret.cert).block
    /\ keyDER' = PemDecode(secret.certkey).block
    /\ bootPc' = "cert"
    /\ UNCHANGED <<bootSite, secret, callErr, bootResult, globalErr>>
    /\ UNCHANGED signVars

\* line 41: x509.ParseCertificate(certDER.Bytes); certDER is dereferenced
\* whether or not pem.Decode found a block
LoadCertificate ==
    /\ bootPc = "cert"
    /\ IF certDER.nil
       THEN /\ BootPanic
            /\ UNCHANGED <<hvconfig, callErr, bootSite>>
       ELSE /\ hvconfig' = [hvconfig EXCEPT
                               !.TLSCert = ParseCertificate(certDER.Bytes).val]
            /\ callErr' = ParseCertificate(certDER.Bytes).err
            /\ bootSite' = "cert"
            /\ bootPc' = "store"
            /\ UNCHANGED bootResult
    /\ UNCHANGED <<secret, certDER, keyDER, globalErr>>
    /\ UNCHANGED signVars

\* lines 45-55: keyDER.Type picks the parser; keyDER is dereferenced whether
\* or not pem.Decode found a block
LoadKey ==
    /\ bootPc = "key"
    /\ IF keyDER.nil
       THEN /\ BootPanic
            /\ UNCHANGED <<hvconfig, callErr, bootSite>>
       ELSE IF keyDER.Type = "RSA PRIVATE KEY"
       THEN /\ hvconfig' = [hvconfig EXCEPT
                               !.TLSKey = ParsePKCS1PrivateKey(keyDER.Bytes).val]
            /\ callErr' = ParsePKCS1PrivateKey(keyDER.Bytes).err
            /\ bootSite' = "key"
            /\ bootPc' = "store"
            /\ UNCHANGED bootResult
       ELSE IF keyDER.Type = "PRIVATE KEY"
       THEN /\ hvconfig' = [hvconfig EXCEPT
                               !.TLSKey = ParsePKCS8PrivateKey(keyDER.Bytes).val]
            /\ callErr' = ParsePKCS8PrivateKey(keyDER.Bytes).err
            /\ bootSite' = "key"
            /\ bootPc' = "store"
            /\ UNCHANGED bootResult
       ELSE /\ BootReturn(NoSigner, ErrKeyPEMType)
            /\ UNCHANGED <<hvconfig, callErr, bootSite>>
    /\ UNCHANGED <<secret, certDER, keyDER, globalErr>>
    /\ UNCHANGED signVars

\* line 56: hvconfig.Validate()
ValidateConfig ==
    /\ bootPc = "validate"
    /\ callErr' = HVConfigValidate(hvconfig)
    /\ bootSite' = "validate"
    /\ bootPc' = "store"
    /\ UNCHANGED <<secret, certDER, keyDER, hvconfig, bootResult, globalErr>>
    /\ UNCHANGED signVars

\* lines 41, 46, 50, 56, "..., err = ...": the store to the package variable
\* err, the two words one at a time, in either order
BootStoreErr ==
    /\ bootPc \in {"store", "storeTab", "storeData"}
    /\ \E w \in {"tab", "data"} :
          /\ bootPc \in {"store", IF w = "tab" THEN "storeTab" ELSE "storeData"}
          /\ globalErr' = IF w = "tab"
                          THEN [globalErr EXCEPT !.tab = callErr.tab]
                          ELSE [globalErr EXCEPT !.data = callErr.data]
          /\ bootPc' = IF bootPc # "store" THEN "check"
                       ELSE IF w = "tab" THEN "storeData" ELSE "storeTab"
    /\ UNCHANGED <<bootSite, secret, certDER, keyDER, hvconfig, callErr,
                   bootResult>>
    /\ UNCHANGED signVars

\* lines 41, 46, 50, 56, "err != nil": load the package variable and test it
BootCheckErr ==
    /\ bootPc = "check"
    /\ bootPc' = IF ~IsNil(globalErr) THEN "returnErr"
                 ELSE IF bootSite = "cert" THEN "key"
                 ELSE IF bootSite = "key" THEN "validate"
                 ELSE "signer"
    /\ UNCHANGED <<bootSite, secret, certDER, keyDER, hvconfig, callErr,
                   bootResult, globalErr>>
    /\ UNCHANGED signVars

\* lines 42, 47, 51, 57, "return nil, err": load the package variable again
BootReturnErr ==
    /\ bootPc = "returnErr"
    /\ BootReturn(NoSigner, globalErr)
    /\ UNCHANGED <<bootSite, secret, certDER, keyDER, hvconfig, callErr,
                   globalErr>>
    /\ UNCHANGED signVars

\* line 59: return &hvcaSigner{config: hvconfig}, nil
ReturnSigner ==
    /\ bootPc = "signer"
    /\ BootReturn([nil |-> FALSE, config |-> hvconfig], NilErr)
    /\ UNCHANGED <<bootSite, secret, certDER, keyDER, hvconfig, callErr,
                   globalErr>>
    /\ UNCHANGED signVars

\* the steps of Sign that involve no answer of the CA's
Step(i) ==
    \/ NewClient(i)
    \/ StoreErr(i)
    \/ CheckErr(i)
    \/ ReturnErr(i)
    \/ ParseCSR(i)
    \/ ValidateAndProject(i)
    \/ CertificateRequest(i)
    \/ CertificateRetrieve(i)
    \/ Encode(i)

Next ==
    \E i \in Procs :
        \/ Step(i)
        \/ Policy(i, ConcurrentPolicies)
        \/ TrustChain(i, ConcurrentChains)

NextSingle ==
    \E i \in {1} :
        \/ Step(i)
        \/ Policy(i, SinglePolicies(csrBytes[i]))
        \/ TrustChain(i, CAChains)

\* concurrent invocations on one signer
Spec == Init /\ [][Next]_vars

\* one invocation, over every CSR and policy of SingleCases
SpecSingle == InitSingle /\ [][NextSingle]_vars

\* One goroutine has called HVCASignerFromIssuerAndSecretData, another has
\* called Sign on a signer built before.
InitBoot ==
    /\ bootPc = "start"
    /\ secret \in Secrets
    /\ InitBootLocals
    /\ pc = [i \in Procs |-> IF i = 1 THEN "start" ELSE "idle"]
    /\ \E c \in ConcurrentCSRs :
          csrBytes = [i \in Procs |-> IF i = 1 THEN c ELSE MalformedCSR]
    /\ InitLocals

NextBoot ==
    \/ Decode
    \/ LoadCertificate
    \/ LoadKey
    \/ ValidateConfig
    \/ BootStoreErr
    \/ BootCheckErr
    \/ BootReturnErr
    \/ ReturnSigner
    \/ \E i \in {1} :
          \/ Step(i)
          \/ Policy(i, ConcurrentPolicies)
          \/ TrustChain(i, ConcurrentChains)

\* a call of the bootstrapper next to one invocation of Sign
SpecBoot == InitBoot /\ [][NextBoot]_vars


\* ------------------------------------------------------------- claims
Range(s) == {s[k] : k \in 1..Len(s)}

Returned(i) == pc[i] = "done"
Ended(i) == pc[i] \in {"done", "panic"}

\* invocation i fetched a policy and ran lines 98-152 on it
Validated(i) ==
    \/ pc[i] \in {"request", "retrieve", "chain", "encode"}
    \/ Ended(i) /\ calls[i] # <<>> /\ "policy" \notin failedAt[i]

\* invocation i passed the subject checks, so that lines 120-136 ran
Populated(i) ==
    /\ Validated(i)
    /\ ~(Returned(i) /\ result[i].err \in {ErrCommonName, ErrSerialNumber})

\* invocation i handed its request to CertificateRequest, or is about to
Submitting(i) == pc[i] = "request" \/ Len(calls[i]) >= 2

RemoteOrder == <<"Policy", "CertificateRequest", "CertificateRetrieve", "TrustChain">>

\* C1: whenever a step of a Sign invocation fails (open session, parse,
\* fetch policy, validate, submit, retrieve, trust chain), the invocation
\* returns a non-nil error with both outputs nil; and a non-nil output is
\* returned only with a nil error.
C1_FailureReturnsErrorOnly ==
    \A i \in Procs :
        /\ (Ended(i) /\ failedAt[i] # {}) =>
              /\ Returned(i)
              /\ ~IsNil(result[i].err)
              /\ result[i].leaf = <<>>
              /\ result[i].chain = <<>>
        /\ (Returned(i) /\ (result[i].leaf # <<>> \/ result[i].chain # <<>>)) =>
              IsNil(result[i].err)

\* C2: the remote calls of one invocation are a prefix of policy fetch,
\* submit, retrieve, trust chain (so each at most once, in that order); a
\* call is made only if every earlier step succeeded; a CSR that does not
\* parse gives no call at all; a failed validation, in particular a
\* required common name that the CSR lacks, gives no call after the fetch.
C2_RemoteCallsInOrder ==
    \A i \in Procs :
        /\ Len(calls[i]) <= Len(RemoteOrder)
        /\ calls[i] = Prefix(RemoteOrder, Len(calls[i]))
        /\ Len(calls[i]) >= 1 => failedAt[i] \cap {"open", "parse"} = {}
        /\ Len(calls[i]) >= 2 =>
              failedAt[i] \cap {"open", "parse", "policy", "validate"} = {}
        /\ Len(calls[i]) >= 3 => "submit" \notin failedAt[i]
        /\ Len(calls[i]) >= 4 => "retrieve" \notin failedAt[i]
        /\ ~csrBytes[i].valid => calls[i] = <<>>
        /\ "validate" \in failedAt[i] => calls[i] = <<"Policy">>
        /\ (/\ vp[i].SubjectDN.CommonName.Presence = Required
            /\ csr[i].valid
            /\ csr[i].Subject.CommonName = "") => Len(calls[i]) <= 1

\* one invocation made all four calls and returned, another failed its
\* validation after the fetch
C2_Witness ==
    \E i, j \in Procs :
        /\ Returned(i) /\ calls[i] = RemoteOrder /\ IsNil(result[i].err)
        /\ Returned(j) /\ "validate" \in failedAt[j] /\ calls[j] = <<"Policy">>

\* C3 as stated: a required subject field that is empty in the CSR makes
\* Sign fail with the validation error naming that field, and a required
\* field that is not empty is copied onto the request.
C3_RequiredFieldNamed ==
    \A i \in Procs :
        Validated(i) =>
            /\ (/\ vp[i].SubjectDN.CommonName.Presence = Required
                /\ csr[i].Subject.CommonName = "") =>
                  Returned(i) /\ result[i].err = ErrCommonName
            /\ (/\ vp[i].SubjectDN.SerialNumber.Presence = Required
                /\ csr[i].Subject.SerialNumber = "") =>
                  Returned(i) /\ result[i].err = ErrSerialNumber
            /\ (/\ vp[i].SubjectDN.CommonName.Presence = Required
                /\ csr[i].Subject.CommonName # "") =>
                  req[i].Subject.CommonName = csr[i].Subject.CommonName
            /\ (/\ vp[i].SubjectDN.SerialNumber.Presence = Required
                /\ csr[i].Subject.SerialNumber # "") =>
                  req[i].Subject.SerialNumber = csr[i].Subject.SerialNumber

CommonNameFails(i) ==
    /\ vp[i].SubjectDN.CommonName.Presence = Required
    /\ csr[i].Subject.CommonName = ""

\* C3 (amended): the common name is checked first.  A required common name
\* that is empty makes Sign fail with the error naming the common name; a
\* required serial number that is empty makes Sign fail with the error
\* naming the serial number unless Sign already failed on the common name;
\* a required common name that is not empty is copied onto the request, and
\* so is a required serial number unless Sign already failed on the common
\* name.
C3_RequiredFieldNamedInOrder ==
    \A i \in Procs :
        Validated(i) =>
            /\ CommonNameFails(i) =>
                  Returned(i) /\ result[i].err = ErrCommonName
            /\ (/\ ~CommonNameFails(i)
                /\ vp[i].SubjectDN.SerialNumber.Presence = Required
                /\ csr[i].Subject.SerialNumber = "") =>
                  Returned(i) /\ result[i].err = ErrSerialNumber
            /\ (/\ vp[i].SubjectDN.CommonName.Presence = Required
                /\ csr[i].Subject.CommonName # "") =>
                  req[i].Subject.CommonName = csr[i].Subject.CommonName
            /\ (/\ ~CommonNameFails(i)
                /\ vp[i].SubjectDN.SerialNumber.Presence = Required
                /\ csr[i].Subject.SerialNumber # "") =>
                  req[i].Subject.SerialNumber = csr[i].Subject.SerialNumber

\* a required serial number is missing while the required common name is
\* there: Sign returned the serial-number error, the common name copied
C3_Witness ==
    \E i \in Procs :
        /\ Validated(i)
        /\ vp[i].SubjectDN.CommonName.Presence = Required
        /\ vp[i].SubjectDN.SerialNumber.Presence = Required
        /\ csr[i].Subject.CommonName # ""
        /\ csr[i].Subject.SerialNumber = ""
        /\ Returned(i)
        /\ result[i].err = ErrSerialNumber
        /\ req[i].Subject.CommonName = csr[i].Subject.CommonName

\* C4: a subject field the policy marks optional is on the submitted
\* request exactly as in the CSR, empty or not, and the validation errors
\* for a missing subject field arise only for a field marked required.
C4_OptionalFieldCopied ==
    \A i \in Procs :
        /\ (Submitting(i) /\ vp[i].SubjectDN.CommonName.Presence = Optional) =>
              req[i].Subject.CommonName = csr[i].Subject.CommonName
        /\ (Submitting(i) /\ vp[i].SubjectDN.SerialNumber.Presence = Optional) =>
              req[i].Subject.SerialNumber = csr[i].Subject.SerialNumber
        /\ (Validated(i) /\ vp[i].SubjectDN.CommonName.Presence = Optional) =>
              /\ req[i].Subject.CommonName = csr[i].Subject.CommonName
              /\ result[i].err # ErrCommonName
        /\ (Validated(i) /\ vp[i].SubjectDN.SerialNumber.Presence = Optional) =>
              result[i].err # ErrSerialNumber

\* a request is submitted with an optional, empty common name and an
\* optional, non-empty serial number
C4_Witness ==
    \E i \in Procs :
        /\ Submitting(i)
        /\ vp[i].SubjectDN.CommonName.Presence = Optional
        /\ vp[i].SubjectDN.SerialNumber.Presence = Optional
        /\ csr[i].Subject.CommonName = ""
        /\ req[i].Subject.CommonName = ""
        /\ csr[i].Subject.SerialNumber # ""
        /\ req[i].Subject.SerialNumber = csr[i].Subject.SerialNumber

HasRoom(i) == Len(csr[i].DNSNames) + 1 <= vp[i].SAN.DNSNames.MaxCount

\* C5: when the request's common name is set, the policy's DNS-name field
\* is not static and the CSR's DNS names plus one fit under the maximum,
\* the request's DNS SANs are the CSR's names in their order followed by
\* the common name (as a set: the CSR's names and the common name).
C5_BackfillWithRoom ==
    \A i \in Procs :
        (/\ Populated(i)
         /\ req[i].Subject.CommonName # ""
         /\ vp[i].SAN.DNSNames.Static = FALSE
         /\ HasRoom(i)) =>
            /\ req[i].SAN.DNSNames =
                   csr[i].DNSNames \o <<req[i].Subject.CommonName>>
            /\ Range(req[i].SAN.DNSNames) =
                   Range(csr[i].DNSNames) \cup {req[i].Subject.CommonName}

\* the common name was appended after a DNS name of the CSR
C5_Witness ==
    \E i \in Procs :
        /\ Populated(i)
        /\ req[i].Subject.CommonName # ""
        /\ vp[i].SAN.DNSNames.Static = FALSE
        /\ HasRoom(i)
        /\ Len(csr[i].DNSNames) >= 1
        /\ Len(req[i].SAN.DNSNames) = Len(csr[i].DNSNames) + 1

\* C6: when the request's common name is set, the policy's DNS-name field
\* is not static and the CSR's DNS names plus one exceed the maximum, the
\* request's DNS SANs are exactly the CSR's DNS names.
C6_NoRoomKeepsNames ==
    \A i \in Procs :
        (/\ Populated(i)
         /\ req[i].Subject.CommonName # ""
         /\ vp[i].SAN.DNSNames.Static = FALSE
         /\ ~HasRoom(i)) =>
            req[i].SAN.DNSNames = csr[i].DNSNames

\* C7: once the SANs are populated, Sign fails with the "additional SANs"
\* error exactly when the request's DNS count or IP count is below the
\* policy's minimum; the raw counts of the CSR do not decide it.
C7_MinCountAfterBackfill ==
    \A i \in Procs :
        Populated(i) =>
            ((Returned(i) /\ result[i].err = ErrSANCount)
             <=> (\/ vp[i].SAN.DNSNames.MinCount > Len(req[i].SAN.DNSNames)
                  \/ vp[i].SAN.IPAddresses.MinCount > Len(req[i].SAN.IPAddresses)))

\* a CSR without DNS names passes a minimum of one DNS name through the
\* backfilled common name
C7_Witness ==
    \E i \in Procs :
        /\ Populated(i)
        /\ csr[i].DNSNames = <<>>
        /\ vp[i].SAN.DNSNames.MinCount = 1
        /\ req[i].SAN.DNSNames = <<csr[i].Subject.CommonName>>
        /\ result[i].err # ErrSANCount
        /\ Submitting(i)

NamesDiffer(i) ==
    PublicKeyAlgorithmString(csr[i].PublicKeyAlgorithm)
        # KeyTypeString(vp[i].PublicKey.KeyType)

NamesBoth(i) ==
    /\ Len(result[i].err.data) = 4
    /\ result[i].err.data[2] = PublicKeyAlgorithmString(csr[i].PublicKeyAlgorithm)
    /\ result[i].err.data[4] = KeyTypeString(vp[i].PublicKey.KeyType)

\* C8 as stated: whenever the CSR's key algorithm differs from the policy's
\* key type, Sign fails without submitting and its error names both
\* algorithms, whatever the other fields are.
C8_KeyMismatchNamesBoth ==
    \A i \in Procs :
        (Validated(i) /\ NamesDiffer(i)) =>
            /\ Returned(i)
            /\ Len(calls[i]) = 1
            /\ ~IsNil(result[i].err)
            /\ NamesBoth(i)

\* C8 (amended): whenever the CSR's key algorithm differs from the policy's
\* key type, Sign fails without submitting; its error names both algorithms
\* unless the subject checks or the SAN minimum check, which come first,
\* have failed, and then it is the error of that check.
C8_KeyMismatchFails ==
    \A i \in Procs :
        (Validated(i) /\ NamesDiffer(i)) =>
            /\ Returned(i)
            /\ Len(calls[i]) = 1
            /\ ~IsNil(result[i].err)
            /\ \/ result[i].err \in {ErrCommonName, ErrSerialNumber, ErrSANCount}
               \/ NamesBoth(i)

\* the policy asks for ECDSA, the CSR's key is DSA: Sign returned the error
\* naming both
C8_Witness ==
    \E i \in Procs :
        /\ Validated(i)
        /\ csr[i].PublicKeyAlgorithm = X509DSA
        /\ vp[i].PublicKey.KeyType = KeyTypeECDSA
        /\ Returned(i)
        /\ NamesBoth(i)

\* C9: no step of one invocation changes a variable another invocation
\* reads: while invocation i stands before its load of the package variable
\* err (the test of line 77, the return of line 78), no step of another
\* invocation changes that variable.
C9_NoSharedWrites ==
    [][\A i \in Procs :
          (pc[i] \in {"check", "returnErr"} /\ pc'[i] = pc[i])
              => globalErr' = globalErr]_vars

\* C10: an invocation never ends in a panic, and what it returns is either
\* a leaf with a nil error or no output with a non-nil error.
C10_AlwaysReturns ==
    \A i \in Procs :
        /\ pc[i] # "panic"
        /\ Returned(i) =>
              \/ IsNil(result[i].err) /\ result[i].leaf # <<>>
              \/ /\ ~IsNil(result[i].err)
                 /\ result[i].leaf = <<>>
                 /\ result[i].chain = <<>>

\* what the secret holds, read off it independently of the call's locals
CertBlock == PemDecode(secret.cert).block
KeyBlock == PemDecode(secret.certkey).block

CertParses == ~CertBlock.nil /\ IsNil(ParseCertificate(CertBlock.Bytes).err)

KeyParses ==
    /\ ~KeyBlock.nil
    /\ \/ /\ KeyBlock.Type = "RSA PRIVATE KEY"
          /\ IsNil(ParsePKCS1PrivateKey(KeyBlock.Bytes).err)
       \/ /\ KeyBlock.Type = "PRIVATE KEY"
          /\ IsNil(ParsePKCS8PrivateKey(KeyBlock.Bytes).err)

\* C11: for every secret, also one whose certificate or key entry is
\* missing or holds no PEM block, the bootstrapper never panics and returns
\* either a signer with a nil error or no signer with a non-nil error; it
\* returns a signer only if the certificate parsed, the key's PEM type was
\* one of the two recognized ones and the key parsed with that type's
\* parser, and the configuration validated; a key block of any other type
\* (once the certificate has parsed) gives the error "unable to determine
\* the mTLS private key type".
C11_BootstrapperSignerOrError ==
    /\ bootPc # "panic"
    /\ bootPc = "done" =>
          /\ \/ ~bootResult.signer.nil /\ IsNil(bootResult.err)
             \/ bootResult.signer.nil /\ ~IsNil(bootResult.err)
          /\ ~bootResult.signer.nil =>
                /\ CertParses
                /\ KeyParses
                /\ IsNil(HVConfigValidate(bootResult.signer.config))
          /\ (/\ CertParses
              /\ ~KeyBlock.nil
              /\ KeyBlock.Type \notin {"RSA PRIVATE KEY", "PRIVATE KEY"}) =>
                bootResult.err = ErrKeyPEMType

\* the scope of invocation i is there from its entry step on and released
\* exactly when the invocation has ended
ScopeFollowsPc(i) ==
    /\ scope[i] = "none" <=> pc[i] \in {"idle", "start"}
    /\ scope[i] = "released" <=> Ended(i)

\* C12: every invocation of Sign opens one cancellable scope, at entry: the
\* scope is open exactly from the entry until the invocation ends, it is
\* opened only by the entry step and only once, it is released by the step
\* that ends the invocation, whichever return path that is (success, failed
\* session open, parse, validation or remote call), and once it is released
\* the invocation makes no remote call.
C12_ScopeOpenedOnceReleasedAtEnd ==
    [][\A i \in Procs :
          /\ ScopeFollowsPc(i)
          /\ ScopeFollowsPc(i)'
          /\ scope'[i] # scope[i] =>
                \/ scope[i] = "none" /\ scope'[i] = "open" /\ pc[i] = "start"
                \/ scope[i] = "open" /\ scope'[i] = "released"
                      /\ ~Ended(i) /\ Ended(i)'
          /\ scope[i] = "released" => calls'[i] = calls[i]]_vars

\* one invocation returned the certificate after its four calls, another
\* returned the error of its failed session open, both with the scope
\* released
C12_Witness ==
    \E i, j \in Procs :
        /\ Returned(i) /\ IsNil(result[i].err) /\ calls[i] = RemoteOrder
        /\ scope[i] = "released"
        /\ Returned(j) /\ "open" \in failedAt[j] /\ ~IsNil(result[j].err)
        /\ calls[j] = <<>>
        /\ scope[j] = "released"

\* invocation i has a remote call in flight: its next step is the answer to
\* the policy fetch, the submission, the retrieval or the trust-chain fetch
InFlight(i) ==
    /\ pc[i] \in {"policy", "request", "retrieve", "chain"}
    /\ clnt[i] = "client"

\* a step of the program that cancels the scope of invocation i while i
\* itself has not ended
CancelledFromOutside(i) ==
    /\ Next
    /\ scope[i] = "open"
    /\ scope'[i] # "open"
    /\ ~Ended(i)'

\* C13: while an invocation has a remote call in flight, its scope can be
\* cancelled from outside the invocation (by its caller); and an invocation
\* whose scope is cancelled has no remote call in flight and starts none.
C13_CallerCanCancel ==
    \A i \in Procs :
        /\ InFlight(i) => ENABLED CancelledFromOutside(i)
        /\ scope[i] # "open" => ~InFlight(i)

\* the number of lines that a sequence of PEM blocks takes when nothing
\* stands between the blocks
RECURSIVE BlockLines(_)
BlockLines(blocks) ==
    IF blocks = <<>>
    THEN 0
    ELSE Len(Head(blocks).Bytes) + 2 + BlockLines(Tail(blocks))

\* invocation i returned from line 182, every step of it having succeeded
Succeeded(i) ==
    /\ Returned(i)
    /\ calls[i] = RemoteOrder
    /\ "chain" \notin failedAt[i]

\* C14: on success the leaf output is exactly one PEM block, of type
\* CERTIFICATE, that decodes to the raw DER of the certificate retrieved for
\* the serial the invocation's own submission returned; the chain output is
\* nothing but PEM blocks of type CERTIFICATE, as many as the trust chain
\* has certificates, the k-th block decoding to the raw DER of the k-th
\* certificate; an empty trust chain gives an empty chain output with a nil
\* error.
C14_OutputsDecodeBack ==
    \A i \in Procs :
        Succeeded(i) =>
            /\ IsNil(result[i].err)
            /\ LET blocks == DecodeAll(result[i].leaf)
               IN  /\ Len(blocks) = 1
                   /\ blocks[1].Type = "CERTIFICATE"
                   /\ blocks[1].Bytes = LeafDER(serial[i])
                   /\ blocks[1].Bytes = info[i].Raw
                   /\ Len(result[i].leaf) = BlockLines(blocks)
            /\ LET blocks == DecodeAll(result[i].chain)
               IN  /\ Len(blocks) = Len(caChainList[i])
                   /\ \A k \in 1..Len(blocks) :
                         /\ blocks[k].Type = "CERTIFICATE"
                         /\ blocks[k].Bytes = caChainList[i][k].Raw
                   /\ Len(result[i].chain) = BlockLines(blocks)
            /\ caChainList[i] = <<>> => result[i].chain = <<>>

\* Sign succeeded with a trust chain of two different certificates
C14_Witness ==
    \E i \in Procs :
        /\ Succeeded(i)
        /\ Len(caChainList[i]) >= 2
        /\ caChainList[i][1] # caChainList[i][2]
        /\ Len(DecodeAll(result[i].chain)) = Len(caChainList[i])
        /\ DecodeAll(result[i].leaf)[1].Bytes = LeafDER(serial[i])

\* the CSR and the policy of the end-to-end scenario; a policy without SAN
\* requirements is one whose SAN fields ask for no entry and admit none
ScenarioCSR(c) ==
    /\ c.valid
    /\ c.Subject.CommonName = "example.com"
    /\ c.PublicKeyAlgorithm = X509RSA
    /\ c.DNSNames = <<>>
    /\ c.IPAddresses = <<>>

NoSANRequirements(f) == f.MinCount = 0 /\ f.MaxCount = 0

IsScenarioPolicy(p) ==
    /\ p.SubjectDN.CommonName.Presence = Required
    /\ p.SubjectDN.SerialNumber.Presence # Required
    /\ NoSANRequirements(p.SAN.DNSNames)
    /\ NoSANRequirements(p.SAN.IPAddresses)
    /\ p.PublicKey.KeyType = KeyTypeRSA
    /\ p.PublicKey.KeyFormat = PKCS10
    /\ p.SignaturePolicy.HashAlgorithm.Presence = Required
    /\ p.SignaturePolicy.HashAlgorithm.List = <<"SHA-256">>

InScenario(i) == Validated(i) /\ ScenarioCSR(csr[i]) /\ IsScenarioPolicy(vp[i])

\* C15: in the end-to-end scenario (policy: common name required, no SAN
\* requirements, RSA, PKCS#10, hash required with the list [SHA-256]; CSR:
\* common name "example.com", RSA key, no SANs) the validation passes and
\* the request that is submitted has the common name "example.com", the
\* hash algorithm SHA-256 and neither DNS-name nor IP-address SANs; when
\* all remote calls succeed, Sign returns a nil error, a leaf output of one
\* PEM block and a chain output of as many PEM blocks as the trust chain
\* has certificates.
C15_EndToEndScenario ==
    \A i \in Procs :
        InScenario(i) =>
            /\ pc[i] # "panic"
            /\ "validate" \notin failedAt[i]
            /\ Submitting(i)
            /\ req[i].Subject.CommonName = "example.com"
            /\ req[i].Signature.HashAlgorithm = "SHA-256"
            /\ req[i].SAN.DNSNames = <<>>
            /\ req[i].SAN.IPAddresses = <<>>
            /\ Succeeded(i) =>
                  /\ IsNil(result[i].err)
                  /\ Len(DecodeAll(result[i].leaf)) = 1
                  /\ Len(result[i].leaf) = BlockLines(DecodeAll(result[i].leaf))
                  /\ Len(DecodeAll(result[i].chain)) = Len(caChainList[i])
                  /\ Len(result[i].chain) = BlockLines(DecodeAll(result[i].chain))

\* the scenario ran to its end with a trust chain of two certificates
C15_Witness ==
    \E i \in Procs :
        /\ InScenario(i)
        /\ Succeeded(i)
        /\ req[i].Subject.CommonName = "example.com"
        /\ req[i].Signature.HashAlgorithm = "SHA-256"
        /\ Len(caChainList[i]) = 2
        /\ Len(DecodeAll(result[i].chain)) = 2

\* C16: in a request that is submitted, a subject field is non-empty only
\* if the policy marks it required or optional, a SAN list is non-empty only
\* if the policy's field is not static and has a maximum count of at least
\* 1, and the hash algorithm is set only if the policy marks it required,
\* and then it is a member of the policy's list.
C16_OnlyAllowedFieldsPopulated ==
    \A i \in Procs :
        Submitting(i) =>
            /\ req[i].Subject.CommonName # "" =>
                  vp[i].SubjectDN.CommonName.Presence \in {Required, Optional}
            /\ req[i].Subject.SerialNumber # "" =>
                  vp[i].SubjectDN.SerialNumber.Presence \in {Required, Optional}
            /\ req[i].SAN.DNSNames # <<>> =>
                  /\ vp[i].SAN.DNSNames.Static = FALSE
                  /\ vp[i].SAN.DNSNames.MaxCount >= 1
            /\ req[i].SAN.IPAddresses # <<>> =>
                  /\ vp[i].SAN.IPAddresses.Static = FALSE
                  /\ vp[i].SAN.IPAddresses.MaxCount >= 1
            /\ req[i].Signature.HashAlgorithm # "" =>
                  /\ vp[i].SignaturePolicy.HashAlgorithm.Presence = Required
                  /\ req[i].Signature.HashAlgorithm
                        \in Range(vp[i].SignaturePolicy.HashAlgorithm.List)

\* a request is submitted whose CSR has a common name and DNS names that the
\* policy does not allow, and they are not on the request
C16_Witness ==
    \E i \in Procs :
        /\ Submitting(i)
        /\ csr[i].Subject.CommonName # ""
        /\ vp[i].SubjectDN.CommonName.Presence \notin {Required, Optional}
        /\ req[i].Subject.CommonName = ""
        /\ csr[i].DNSNames # <<>>
        /\ vp[i].SAN.DNSNames.Static = TRUE
        /\ vp[i].SAN.DNSNames.MaxCount >= 1
        /\ req[i].SAN.DNSNames = <<>>
        /\ req[i].Signature.HashAlgorithm # ""

\* C17: in a request that is submitted, the hash algorithm is the first
\* entry of the policy's list if the policy marks the hash algorithm
\* required, whatever algorithm the CSR is signed with, and it is unset if
\* the policy does not mark it required; Sign never sets it otherwise.
C17_HashIsFirstOfList ==
    \A i \in Procs :
        /\ (/\ Submitting(i)
            /\ vp[i].SignaturePolicy.HashAlgorithm.Presence = Required) =>
              /\ vp[i].SignaturePolicy.HashAlgorithm.List # <<>>
              /\ req[i].Signature.HashAlgorithm =
                    Head(vp[i].SignaturePolicy.HashAlgorithm.List)
        /\ (/\ Validated(i)
            /\ vp[i].SignaturePolicy.HashAlgorithm.Presence # Required) =>
              req[i].Signature.HashAlgorithm = ""

\* a CSR signed with SHA-512 is submitted under a policy whose list begins
\* with another algorithm and goes on
C17_Witness ==
    \E i \in Procs :
        /\ Submitting(i)
        /\ csr[i].SignatureAlgorithm = "SHA512-RSA"
        /\ vp[i].SignaturePolicy.HashAlgorithm.Presence = Required
        /\ Len(vp[i].SignaturePolicy.HashAlgorithm.List) >= 2
        /\ req[i].Signature.HashAlgorithm = "SHA-512"
        /\ "SHA-256" \in Range(vp[i].SignaturePolicy.HashAlgorithm.List)

\* the checks that come before the key format (lines 100-144) all pass
EarlierChecksPass(i) ==
    /\ ~CommonNameFails(i)
    /\ ~(/\ vp[i].SubjectDN.SerialNumber.Presence = Required
         /\ csr[i].Subject.SerialNumber = "")
    /\ vp[i].SAN.DNSNames.MinCount <= Len(req[i].SAN.DNSNames)
    /\ vp[i].SAN.IPAddresses.MinCount <= Len(req[i].SAN.IPAddresses)
    /\ ~NamesDiffer(i)

\* C18: whenever the fetched policy's key format is not PKCS#10 and the
\* checks before it pass, Sign returns the unsupported-format error and has
\* made no call after the policy fetch; a request is submitted only under a
\* policy whose key format is PKCS#10.
C18_OnlyPKCS10Submitted ==
    \A i \in Procs :
        /\ (/\ Validated(i)
            /\ vp[i].PublicKey.KeyFormat # PKCS10
            /\ EarlierChecksPass(i)) =>
              /\ Returned(i)
              /\ result[i].err = ErrKeyFormat
              /\ result[i].leaf = <<>>
              /\ result[i].chain = <<>>
              /\ calls[i] = <<"Policy">>
        /\ Submitting(i) => vp[i].PublicKey.KeyFormat = PKCS10

\* a CSR that passes every earlier check is refused under a PKCS#8 policy
C18_Witness ==
    \E i \in Procs :
        /\ Validated(i)
        /\ vp[i].PublicKey.KeyFormat = PKCS8
        /\ EarlierChecksPass(i)
        /\ Returned(i)
        /\ result[i].err = ErrKeyFormat
        /\ calls[i] = <<"Policy">>

\* C19: in every request that is submitted the DNS-name SANs are no more
\* than the policy's DNS maximum, the backfilled common name included, and
\* the IP-address SANs no more than the policy's IP maximum; the request's
\* IP addresses are none or exactly the CSR's, and its DNS names are none,
\* the common name alone, the CSR's names, or the CSR's names followed by
\* the common name.
C19_SANsWithinMaximum ==
    \A i \in Procs :
        Submitting(i) =>
            /\ Len(req[i].SAN.DNSNames) <= vp[i].SAN.DNSNames.MaxCount
            /\ Len(req[i].SAN.IPAddresses) <= vp[i].SAN.IPAddresses.MaxCount
            /\ req[i].SAN.IPAddresses \in {<<>>, csr[i].IPAddresses}
            /\ req[i].SAN.DNSNames \in
                  {<<>>,
                   <<req[i].Subject.CommonName>>,
                   csr[i].DNSNames,
                   csr[i].DNSNames \o <<req[i].Subject.CommonName>>}

\* a request is submitted that fills the DNS maximum with the CSR's name and
\* the backfilled common name
C19_Witness ==
    \E i \in Procs :
        /\ Submitting(i)
        /\ csr[i].DNSNames # <<>>
        /\ req[i].Subject.CommonName # ""
        /\ req[i].SAN.DNSNames = csr[i].DNSNames \o <<req[i].Subject.CommonName>>
        /\ Len(req[i].SAN.DNSNames) = vp[i].SAN.DNSNames.MaxCount

\* invocation i returned from line 78
ReturnedAtOpen(i) ==
    /\ Returned(i)
    /\ calls[i] = <<>>
    /\ "parse" \notin failedAt[i]

\* invocation i went past line 79, to the parsing of the CSR
WentOn(i) ==
    \/ pc[i] \in {"parse", "policy", "validate", "request", "retrieve",
                  "chain", "encode", "panic"}
    \/ Returned(i) /\ ~ReturnedAtOpen(i)

\* C20: in every interleaving, an invocation of Sign goes on to parse the
\* CSR and fetch the policy if and only if its own hvclient.NewClient
\* succeeded, and the error it returns from the session-open step is the
\* error of its own hvclient.NewClient, never a value another invocation
\* wrote.
C20_OwnSessionOpenDecides ==
    \A i \in Procs :
        /\ WentOn(i) => IsNil(openErr[i])
        /\ (pc[i] = "returnErr" \/ ReturnedAtOpen(i)) => ~IsNil(openErr[i])
        /\ ReturnedAtOpen(i) => result[i].err = openErr[i]

====
